---- MODULE Spec2Model ----
(***************************************************************************)
(* xsdata: the JSON serializer (formats/dataclass/serializers/json.py) and *)
(* the generate command of the command line interface (cli.py).            *)
(*                                                                         *)
(* The serializer is modelled over an object heap: records (dataclass      *)
(* instances) and collections are heap objects with an identity, scalars   *)
(* are inline values.  JsonSerializer.convert is the recursive operator    *)
(* convert, computed branch by branch as the method does, with the depth   *)
(* of the call stack as an argument so that a cyclic graph ends in the     *)
(* interpreter's recursion error.                                          *)
(***************************************************************************)
EXTENDS Integers, Sequences, FiniteSets, TLC

VARIABLES
    heap,          \* the caller's object graph: object id -> object
    root,          \* the value handed to convert / write / render
    dict_factory,  \* JsonSerializer.dict_factory: "dict" or "filter_none"
    indent,        \* JsonSerializer.indent
    pc,            \* "ready", then which public method has been called
    result,        \* what convert produced: a value or the raised error
    out,           \* the text stream given to write: the chunks dumped to it
    returned,      \* what the called method handed back to its caller
    raised,        \* the exception that reached the caller, "none" if none
    dumps,         \* how many times dump_factory has been invoked
    kwargs,        \* cli generate: the command-line options
    config_file,   \* cli generate: the configuration file on disk, if any
    config,        \* cli generate: the GeneratorConfig handed to the transformer
    logger_level,  \* cli generate: the logger's level
    processed      \* cli generate: the uris handed to transformer.process

vars == <<heap, root, dict_factory, indent, pc, result, out, returned, raised,
          dumps, kwargs, config_file, config, logger_level, processed>>

serVars == <<heap, root, dict_factory, indent, pc, result, out, returned, raised, dumps>>
cliVars == <<kwargs, config_file, config, logger_level, processed>>

(***************************************************************************)
(* Bounds of the model.                                                    *)
(***************************************************************************)
\* objects on the heap: a chain 1 -> 2 -> ... with back references to object 1
NObj == 3
\* longest collection
MaxLen == 2
\* the interpreter's recursion limit, in convert frames; deeper than any
\* acyclic graph of NObj objects, and than two laps of a cycle (after which
\* the recursion repeats itself) followed by a scalar
RecursionLimit == 2 * NObj + 3

Obj == 1 .. NObj

(***************************************************************************)
(* Values.  Every value is a record with a kind k; payloads are strings.   *)
(***************************************************************************)
Int1  == [k |-> "int",  v |-> "1"]      \* a primitive integer
StrA  == [k |-> "str",  v |-> "A"]      \* a primitive text
Null  == [k |-> "null"]                 \* None
Dict1 == [k |-> "dict", id |-> "d1"]    \* an existing generic map, object d1
Date1 == [k |-> "date", v |-> "d"]      \* a scalar the converter registry knows
Unk1  == [k |-> "unk",  v |-> "u"]      \* a scalar of an unregistered type
EnumA == [k |-> "enum", value |-> StrA] \* an Enum member whose value is "A"
Ref(o) == [k |-> "ref", o |-> o]        \* a reference to heap object o

Atoms == {Int1, StrA, Null, Dict1, Date1, Unk1, EnumA}

Free == [k |-> "free"]                  \* an unused heap slot

\* XmlVar: the field descriptors, and the absent descriptor (var = None)
NoVar == [present |-> FALSE, name |-> "", local_name |-> "", format |-> "none"]
XmlVar(n, l, f) == [present |-> TRUE, name |-> n, local_name |-> l, format |-> f]

\* The model classes of the bounded inputs: Point declares x then y, y with a
\* format; Dup declares two fields that share the external name v (an
\* attribute and an element of the same name).
get_all_vars(clazz) ==
    IF clazz = "Point" THEN <<XmlVar("a", "x", "none"), XmlVar("b", "y", "F1")>>
    ELSE IF clazz = "Dup" THEN <<XmlVar("a", "v", "none"), XmlVar("b", "v", "none")>>
    ELSE <<>>

Classes == {"Point", "Dup"}

AllVars == UNION {{get_all_vars(c)[i] : i \in DOMAIN get_all_vars(c)} : c \in Classes}

\* the results of a call: a value, or the exception raised
Ok(v)  == [ok |-> TRUE, val |-> v]
Err(e) == [ok |-> FALSE, err |-> e]

(***************************************************************************)
(* Heap objects: a dataclass instance, or a list / tuple.  A collection    *)
(* with model = TRUE is an instance of a dataclass that derives from list: *)
(* both is_model and is_array hold of it.                                  *)
(***************************************************************************)
Rec(c, a, b) == [k |-> "rec", clazz |-> c, fields |-> [a |-> a, b |-> b]]
Coll(ct, m, es) == [k |-> "coll", ctype |-> ct, model |-> m, elems |-> es]

\* the identity of heap object o, of a generic map, and of an object convert allocates
ObjId(o) == ToString(o)
NewId == "new"

\* class_type.is_model(obj): obj is an instance of a model class
is_model(h, obj) ==
    /\ obj.k = "ref"
    /\ \/ h[obj.o].k = "rec"
       \/ h[obj.o].k = "coll" /\ h[obj.o].model

\* collections.is_array(obj): obj is a list or a tuple
is_array(h, obj) == obj.k = "ref" /\ h[obj.o].k = "coll"

\* the isinstance test without dict: a generic map is no longer passed through
is_primitive_without_dict(obj) == obj.k \in {"int", "float", "str", "bool"}

\* isinstance(obj, (dict, int, float, str, bool))
is_primitive(obj) == obj.k \in {"dict", "int", "float", "str", "bool"}

\* the Enum branch left out
is_enum_never(obj) == FALSE

\* isinstance(obj, Enum)
is_enum(obj) == obj.k = "enum"

\* obj.__class__
class_of(h, obj) == IF obj.k = "ref" /\ h[obj.o].k = "rec" THEN h[obj.o].clazz ELSE obj.k

\* context.build(clazz): the metadata of a model class; any other class is an error
build(clazz) ==
    IF clazz \in Classes THEN [ok |-> TRUE, vars |-> get_all_vars(clazz)]
    ELSE Err("MetadataError")

\* the recursion made on the object instead of on its attribute
getattr_self(h, obj, name) == obj

\* getattr(obj, var.name)
getattr(h, obj, name) == h[obj.o].fields[name]

\* converter.serialize(obj, format=...): None stays None, a registered scalar
\* becomes its text under the format, an unregistered type is an error
serialize(obj, format) ==
    IF obj.k = "null" THEN Ok(Null)
    ELSE IF obj.k = "date"
         THEN Ok([k |-> "str", v |-> IF format = "none" THEN obj.v ELSE format \o ":" \o obj.v])
    ELSE Err("UnknownTypeError")

(***************************************************************************)
(* The dict factories.  A generic map is the sequence of its entries in    *)
(* insertion order; a key assigned again keeps its place and takes the new *)
(* value, as in a Python dict.                                             *)
(***************************************************************************)
Pair(key, val) == [key |-> key, val |-> val]

dict_insert(m, p) ==
    IF \E i \in DOMAIN m : m[i].key = p.key
    THEN [i \in DOMAIN m |-> IF m[i].key = p.key THEN Pair(p.key, p.val) ELSE m[i]]
    ELSE Append(m, p)

RECURSIVE dict_items(_, _)
dict_items(m, pairs) ==
    IF pairs = <<>> THEN m ELSE dict_items(dict_insert(m, Head(pairs)), Tail(pairs))

Map(entries) == [k |-> "map", id |-> NewId, pairs |-> entries]

\* dict(pairs)
dict(pairs) == Map(dict_items(<<>>, pairs))

IsNotNone(p) == p.val.k # "null"

\* filter_none(x) == {k: v for k, v in x if v is not None}
filter_none(x) == Map(dict_items(<<>>, SelectSeq(x, IsNotNone)))

\* self.dict_factory(pairs)
call_dict_factory(fac, pairs) == IF fac = "filter_none" THEN filter_none(pairs) ELSE dict(pairs)

\* a sequence of the generic-value tree: the object ident, of type ct
Array(ident, ct, es) == [k |-> "seq", id |-> ident, ctype |-> ct, elems |-> es]

\* the elements converted in place: the collection itself is handed back
same_array(obj) == ObjId(obj.o)

\* [...] and type(obj)(...) build a new object, whatever obj is
new_array(obj) == NewId

\* type(obj)
type(h, obj) == h[obj.o].ctype

\* the field's format not handed to the converter
format_ignored(var) == "none"

\* var.format
format_of(var) == var.format

(***************************************************************************)
(* JsonSerializer.convert.  d is the depth of the call; an exception       *)
(* raised by a nested call ends the comprehension it is raised in.         *)
(***************************************************************************)
RECURSIVE convert(_, _, _, _, _)
RECURSIVE convert_each(_, _, _, _, _)
RECURSIVE convert_fields(_, _, _, _, _)

\* [self.convert(v, var) for v in items], left to right
convert_each(h, fac, items, var, d) ==
    IF items = <<>> THEN [ok |-> TRUE, items |-> <<>>]
    ELSE LET first == convert(h, fac, Head(items), var, d) IN
         IF ~first.ok THEN first
         ELSE LET rest == convert_each(h, fac, Tail(items), var, d) IN
              IF ~rest.ok THEN rest
              ELSE [ok |-> TRUE, items |-> <<first.val>> \o rest.items]

\* [(var.local_name, self.convert(getattr(obj, var.name), var)) for var in vs]
convert_fields(h, fac, obj, vs, d) ==
    IF vs = <<>> THEN [ok |-> TRUE, items |-> <<>>]
    ELSE LET var == Head(vs)
             first == convert(h, fac, getattr(h, obj, var.name), var, d) IN
         IF ~first.ok THEN first
         ELSE LET rest == convert_fields(h, fac, obj, Tail(vs), d) IN
              IF ~rest.ok THEN rest
              ELSE [ok |-> TRUE, items |-> <<Pair(var.local_name, first.val)>> \o rest.items]

convert(h, fac, obj, var, d) ==
    IF d > RecursionLimit THEN Err("ResourceExhaustion")
    ELSE IF ~var.present \/ is_model(h, obj) THEN
        IF is_array(h, obj) THEN
            LET r == convert_each(h, fac, h[obj.o].elems, NoVar, d + 1) IN
            IF r.ok THEN Ok(Array(new_array(obj), "list", r.items)) ELSE r
        ELSE
            LET meta == build(class_of(h, obj)) IN
            IF ~meta.ok THEN meta
            ELSE LET r == convert_fields(h, fac, obj, meta.vars, d + 1) IN
                 IF r.ok THEN Ok(call_dict_factory(fac, r.items)) ELSE r
    ELSE IF is_array(h, obj) THEN
        LET r == convert_each(h, fac, h[obj.o].elems, var, d + 1) IN
        IF r.ok THEN Ok(Array(new_array(obj), type(h, obj), r.items)) ELSE r
    ELSE IF is_primitive(obj) THEN Ok(obj)
    ELSE IF is_enum(obj) THEN convert(h, fac, obj.value, var, d + 1)
    ELSE IF ~var.present THEN Err("AttributeError")
    ELSE serialize(obj, format_of(var))

(***************************************************************************)
(* The bounded inputs: object 1 is the root object; object i may refer to  *)
(* object i + 1 and back to object 1.                                      *)
(***************************************************************************)
SeqsOver(S, n) == UNION {[1 .. m -> S] : m \in 0 .. n}
Repeat(v, n) == [j \in 1 .. n |-> v]

Variants == {<<"list", FALSE>>, <<"tuple", FALSE>>, <<"list", TRUE>>}
ScalarElems == {Int1, Date1}

LeafShapes ==
    {Rec("Point", a, b) : a \in {Int1, Unk1}, b \in Atoms \cup {Ref(1)}}
    \cup {Rec("Dup", a, b) : a \in {Int1, Null}, b \in {Int1, Null}}
    \cup {Coll(v[1], v[2], es) : v \in Variants, es \in SeqsOver(ScalarElems, MaxLen)}
    \cup {Coll(v[1], v[2], <<e, Ref(1)>>) : v \in Variants, e \in ScalarElems}

FwdShapes(i) ==
    {Rec("Point", a, Ref(i + 1)) : a \in {Int1, Unk1}}
    \cup {Coll(v[1], v[2], Repeat(Ref(i + 1), n)) : v \in Variants, n \in {1, MaxLen}}

RECURSIVE TailHeaps(_)
TailHeaps(i) ==
    {<<s>> \o Repeat(Free, NObj - i) : s \in LeafShapes}
    \cup (IF i < NObj THEN {<<s>> \o t : s \in FwdShapes(i), t \in TailHeaps(i + 1)} ELSE {})

Inputs ==
    {[heap |-> h, root |-> Ref(1)] : h \in TailHeaps(1)}
    \cup {[heap |-> Repeat(Free, NObj), root |-> a] : a \in Atoms}

\* no value: before a call, and what write returns
Nothing == [k |-> "nothing"]

(***************************************************************************)
(* JsonSerializer.write and JsonSerializer.render as functions of the      *)
(* serializer, the stream and the object: the stream afterwards, the       *)
(* exception that leaves the method, the calls of dump_factory.            *)
(***************************************************************************)
\* self.dump_factory(tree, out, indent=self.indent): one chunk of text per call
dump_factory(tree, stream, ind) == Append(stream, [tree |-> tree, indent |-> ind])

\* the tree dumped while it is converted: what precedes a failure is written
write_streaming(h, fac, ind, stream, obj) ==
    LET r == convert(h, fac, obj, NoVar, 1) IN
    [stream |-> dump_factory(IF r.ok THEN r.val ELSE Nothing, stream, ind),
     raised |-> IF r.ok THEN "none" ELSE r.err, dumps |-> 1, result |-> r]

write(h, fac, ind, stream, obj) ==
    LET r == convert(h, fac, obj, NoVar, 1) IN
    IF r.ok
    THEN [stream |-> dump_factory(r.val, stream, ind), raised |-> "none", dumps |-> 1, result |-> r]
    ELSE [stream |-> stream, raised |-> r.err, dumps |-> 0, result |-> r]

render(h, fac, ind, obj) ==
    LET w == write(h, fac, ind, <<>>, obj) IN
    [returned |-> IF w.raised = "none" THEN [k |-> "text", chunks |-> w.stream] ELSE Nothing,
     raised |-> w.raised, dumps |-> w.dumps, result |-> w.result]

\* JsonSerializer() with its defaults, and
\* JsonSerializer(dict_factory=DictFactory.FILTER_NONE, indent=2)
Serializers ==
    {[dict_factory |-> "dict", indent |-> "None"],
     [dict_factory |-> "filter_none", indent |-> "2"]}

\* the cli variables while the serializer runs
CliIdle ==
    /\ kwargs = "none" /\ config_file = "none" /\ config = "none"
    /\ logger_level = "none" /\ processed = "none"

Init ==
    /\ \E inp \in Inputs : heap = inp.heap /\ root = inp.root
    /\ \E ser \in Serializers : dict_factory = ser.dict_factory /\ indent = ser.indent
    /\ pc = "ready"
    /\ result = Nothing /\ out = <<>> /\ returned = Nothing /\ raised = "none"
    /\ dumps = 0
    /\ CliIdle

(***************************************************************************)
(* The serializer's public methods, each called once on the input.         *)
(***************************************************************************)
\* tree = serializer.convert(obj)
CallConvert ==
    /\ pc = "ready"
    /\ LET r == convert(heap, dict_factory, root, NoVar, 1) IN
        /\ result' = r
        /\ returned' = IF r.ok THEN r.val ELSE Nothing
        /\ raised' = IF r.ok THEN "none" ELSE r.err
    /\ pc' = "converted"
    /\ UNCHANGED <<heap, root, dict_factory, indent, out, dumps>>
    /\ UNCHANGED cliVars

\* serializer.write(out, obj)
CallWrite ==
    /\ pc = "ready"
    /\ LET w == write(heap, dict_factory, indent, out, root) IN
        /\ result' = w.result
        /\ out' = w.stream
        /\ raised' = w.raised
        /\ dumps' = dumps + w.dumps
    /\ returned' = Nothing
    /\ pc' = "written"
    /\ UNCHANGED <<heap, root, dict_factory, indent>>
    /\ UNCHANGED cliVars

\* text = serializer.render(obj)
CallRender ==
    /\ pc = "ready"
    /\ LET w == render(heap, dict_factory, indent, root) IN
        /\ result' = w.result
        /\ returned' = w.returned
        /\ raised' = w.raised
        /\ dumps' = dumps + w.dumps
    /\ pc' = "rendered"
    /\ UNCHANGED <<heap, root, dict_factory, indent, out>>
    /\ UNCHANGED cliVars

Next == CallConvert \/ CallWrite \/ CallRender

Spec == Init /\ [][Next]_vars

(***************************************************************************)
(* cli.py: the generate command.                                           *)
(***************************************************************************)
\* GeneratorConfig(): the output section of a fresh configuration, and the
\* rest of it (conventions, aliases)
GeneratorConfig ==
    [package |-> "generated", structure |-> "filenames",
     format |-> [value |-> "dataclasses", origin |-> "default"],
     relative_imports |-> FALSE, compound_fields |-> FALSE,
     docstring_style |-> "reStructuredText", rest |-> "default"]

\* the configurations a file may hold
FileConfigs ==
    {[package |-> p, structure |-> ss,
      format |-> [value |-> o, origin |-> "file"],
      relative_imports |-> ri, compound_fields |-> cf,
      docstring_style |-> ds, rest |-> "file"] :
        p \in {"generated", "filepkg"}, ss \in {"filenames", "clusters"},
        o \in {"dataclasses", "plantuml"}, ri \in BOOLEAN, cf \in BOOLEAN,
        ds \in {"reStructuredText", "NumPy"}}

\* the sources, as the scheme before "://" (none for a plain path) and the
\* rest: a remote uri, a file uri, a directory, a file
Sources ==
    {[scheme |-> "http", path |-> "h/s.xsd", is_dir |-> FALSE],
     [scheme |-> "file", path |-> "/s.xsd", is_dir |-> FALSE],
     [scheme |-> "", path |-> "schemas", is_dir |-> TRUE],
     [scheme |-> "", path |-> "s.xsd", is_dir |-> FALSE]}

Uri(scheme, path) == [scheme |-> scheme, path |-> path]

\* path.glob("*." + suffix) in the directory: one file of each kind, and one
\* that is no schema, definition or document
glob(suffix) ==
    IF suffix \in {"wsdl", "xsd", "xml", "json"}
    THEN <<Uri("file", "schemas/a." \o suffix)>> ELSE <<>>

\* the command lines
Kwargs ==
    {[source |-> s, package |-> p, output |-> o, docstring_style |-> ds,
      structure_style |-> ss, compound_fields |-> cf, relative_imports |-> ri,
      print |-> pp] :
        s \in Sources, p \in {"generated", "pkg"}, o \in {"dataclasses", "plantuml"},
        ds \in {"reStructuredText", "Google"}, ss \in {"filenames", "namespaces"},
        cf \in BOOLEAN, ri \in BOOLEAN, pp \in BOOLEAN}

\* resolve_source(source)
resolve_source(source) ==
    IF source.scheme # "" /\ source.scheme # "file"
    THEN <<Uri(source.scheme, source.path)>>
    ELSE IF source.is_dir
         THEN glob("wsdl") \o glob("xsd") \o glob("xml") \o glob("json")
         ELSE <<Uri("file", source.path)>>

\* the package option applied to a loaded configuration even when it is the default
load_config_always_package(kw, file) ==
    IF file.exists
    THEN [file.content EXCEPT !.package = kw.package]
    ELSE [GeneratorConfig EXCEPT
            !.format = [value |-> kw.output, origin |-> "option"],
            !.package = kw.package,
            !.relative_imports = kw.relative_imports,
            !.compound_fields = kw.compound_fields,
            !.docstring_style = kw.docstring_style]

\* lines 167-178: the configuration read from the file, or built from the options
load_config(kw, file) ==
    IF file.exists
    THEN IF kw.package # "generated"
         THEN [file.content EXCEPT !.package = kw.package]
         ELSE file.content
    ELSE [GeneratorConfig EXCEPT
            !.format = [value |-> kw.output, origin |-> "option"],
            !.package = kw.package,
            !.relative_imports = kw.relative_imports,
            !.compound_fields = kw.compound_fields,
            !.docstring_style = kw.docstring_style]

\* lines 180-181
override_structure(kw, c) ==
    IF kw.structure_style # "filenames"
    THEN [c EXCEPT !.structure = kw.structure_style] ELSE c

\* lines 183-184
override_format(kw, c) ==
    IF kw.output # "dataclasses"
    THEN [c EXCEPT !.format.value = kw.output] ELSE c

\* lines 186-187
override_relative_imports(kw, c) ==
    IF kw.relative_imports THEN [c EXCEPT !.relative_imports = TRUE] ELSE c

\* the configuration generate hands to the transformer
generate_config(kw, file) ==
    override_relative_imports(kw,
        override_format(kw, override_structure(kw, load_config(kw, file))))

InitCli ==
    /\ kwargs \in Kwargs
    /\ config_file \in
          {[exists |-> FALSE, content |-> GeneratorConfig]}
          \cup {[exists |-> TRUE, content |-> c] : c \in FileConfigs}
    /\ config = Nothing
    /\ logger_level = "INFO"
    /\ processed = Nothing
    /\ heap = <<>> /\ root = Nothing /\ dict_factory = "dict" /\ indent = "None"
    /\ pc = "cli"
    /\ result = Nothing /\ out = <<>> /\ returned = Nothing /\ raised = "none"
    /\ dumps = 0

\* xsdata generate SOURCE [options]
generate ==
    /\ pc = "cli"
    /\ logger_level' = IF kwargs["print"] THEN "ERROR" ELSE logger_level
    /\ config' = generate_config(kwargs, config_file)
    /\ processed' = [k |-> "process", uris |-> resolve_source(kwargs.source),
                     print |-> kwargs["print"]]
    /\ pc' = "generated"
    /\ UNCHANGED <<kwargs, config_file>>
    /\ UNCHANGED <<heap, root, dict_factory, indent, result, out, returned, raised, dumps>>

NextCli == generate

SpecCli == InitCli /\ [][NextCli]_vars

(***************************************************************************)
(* Vocabulary of the properties.                                           *)
(***************************************************************************)
\* one of the serializer's methods has been called and has ended
SerDone == pc \in {"converted", "written", "rendered"}

\* an enclosing field, or none
VarsOrNone == AllVars \cup {NoVar}

\* the values an object holds: its field values, its elements
Slots(obj) ==
    IF obj.k = "rec" THEN {obj.fields[n] : n \in DOMAIN obj.fields}
    ELSE IF obj.k = "coll" THEN {obj.elems[i] : i \in DOMAIN obj.elems}
    ELSE {}

\* the objects an object refers to
Succ(h, o) == {v.o : v \in {s \in Slots(h[o]) : s.k = "ref"}}

RECURSIVE ReachFrom(_, _)
ReachFrom(h, S) ==
    LET T == S \cup UNION {Succ(h, o) : o \in S} IN
    IF T = S THEN S ELSE ReachFrom(h, T)

\* the objects of the input graph
Reachable == ReachFrom(heap, IF root.k = "ref" THEN {root.o} ELSE {})

\* the values of the input graph: the root and every slot of its objects
InputValues == {root} \cup UNION {Slots(heap[o]) : o \in Reachable}

\* the input graph has a cycle through fields and elements
Cyclic == \E o \in Reachable : o \in ReachFrom(heap, Succ(heap, o))

\* the primitives of step 3: boolean, integer, float, text, null, generic map
IsPrimitiveValue(v) == v.k \in {"int", "str", "null", "dict", "bool", "float"}

\* the opaque scalars of step 5
IsOpaqueValue(v) == v.k \in {"date", "unk"}

\* the entries of the map a record converts to, with the given builder
EntriesOf(fac, o, var) == convert(heap, fac, Ref(o), var, 1).val.pairs

\* the identities of the maps and sequences of a generic-value tree that
\* convert built (BuiltIds) and of the generic maps in it (MapIds)
RECURSIVE BuiltIds(_)
BuiltIds(t) ==
    IF t.k = "map" THEN {t.id} \cup UNION {BuiltIds(t.pairs[i].val) : i \in DOMAIN t.pairs}
    ELSE IF t.k = "seq" THEN {t.id} \cup UNION {BuiltIds(t.elems[i]) : i \in DOMAIN t.elems}
    ELSE {}

RECURSIVE MapIds(_)
MapIds(t) ==
    IF t.k = "map" THEN UNION {MapIds(t.pairs[i].val) : i \in DOMAIN t.pairs}
    ELSE IF t.k = "seq" THEN UNION {MapIds(t.elems[i]) : i \in DOMAIN t.elems}
    ELSE IF t.k = "dict" THEN {t.id}
    ELSE {}

\* the identities of the objects of the input graph
InputObjIds == {ObjId(o) : o \in Reachable}
InputDictIds == {v.id : v \in {w \in InputValues : w.k = "dict"}}

(***************************************************************************)
(* C1.  Order preservation.                                                *)
(***************************************************************************)
\* C1: with the default builder, the map a record converts to has exactly one
\* entry per field descriptor of the record's class, keyed by the descriptor's
\* external name, in the order of the descriptors; at every nesting level
\* (every record of the graph, whatever field it is reached under).
C1_OneEntryPerDescriptor ==
    (SerDone /\ dict_factory = "dict") =>
        \A o \in Reachable : heap[o].k = "rec" =>
            \A var \in VarsOrNone :
                LET r == convert(heap, dict_factory, Ref(o), var, 1)
                    vs == get_all_vars(heap[o].clazz) IN
                r.ok =>
                    /\ r.val.k = "map"
                    /\ Len(r.val.pairs) = Len(vs)
                    /\ \A i \in DOMAIN vs : r.val.pairs[i].key = vs[i].local_name

(***************************************************************************)
(* C2.  Identity of primitives.                                            *)
(***************************************************************************)
\* C2 as stated: every primitive value converts to itself, as the root with no
\* enclosing field and under every enclosing field.
C2_PrimitiveIdentityEverywhere ==
    SerDone =>
        \A v \in {w \in InputValues : IsPrimitiveValue(w)} :
            /\ \A var \in VarsOrNone : convert(heap, dict_factory, v, var, 1) = Ok(v)
            /\ v = root => result = Ok(v)

\* C2: every primitive value reached under an enclosing field converts to
\* itself; a primitive handed to convert as the root, with no enclosing field,
\* is not returned: it is dispatched as a record.
C2_PrimitiveIdentityUnderField ==
    SerDone =>
        \A v \in {w \in InputValues : IsPrimitiveValue(w)} :
            /\ \A var \in AllVars : convert(heap, dict_factory, v, var, 1) = Ok(v)
            /\ v = root => result = build(class_of(heap, v))

\* a record whose fields hold an integer and a generic map has been converted
C2_Witness ==
    /\ pc = "converted"
    /\ root = Ref(1)
    /\ heap[1] = Rec("Point", Int1, Dict1)
    /\ result = Ok(Map(<<Pair("x", Int1), Pair("y", Dict1)>>))

(***************************************************************************)
(* C3.  Null policy.                                                       *)
(***************************************************************************)
\* C3: for every record with a null-valued field, at every nesting level: with
\* the default builder the map holds the field's external name mapped to null;
\* with filter_none that name is absent and the map is exactly the pairs with
\* a non-null value, in their original order.
C3_NullPolicy ==
    SerDone =>
        \A o \in Reachable : heap[o].k = "rec" =>
            LET vs == get_all_vars(heap[o].clazz)
                nulls == {i \in DOMAIN vs : getattr(heap, Ref(o), vs[i].name) = Null}
                kept == convert_fields(heap, "filter_none", Ref(o), vs, 2) IN
            /\ convert(heap, "dict", Ref(o), NoVar, 1).ok =>
                  \A i \in nulls :
                      \E j \in DOMAIN EntriesOf("dict", o, NoVar) :
                          EntriesOf("dict", o, NoVar)[j] = Pair(vs[i].local_name, Null)
            /\ convert(heap, "filter_none", Ref(o), NoVar, 1).ok =>
                  /\ \A i \in nulls :
                        \A j \in DOMAIN EntriesOf("filter_none", o, NoVar) :
                            EntriesOf("filter_none", o, NoVar)[j].key # vs[i].local_name
                  /\ EntriesOf("filter_none", o, NoVar) = SelectSeq(kept.items, IsNotNone)

(***************************************************************************)
(* C4.  Collection shape.                                                  *)
(***************************************************************************)
\* C4: every collection whose elements are convertible, as the root or under a
\* field, converts to a sequence of the same length whose i-th element is the
\* conversion of the i-th element under the enclosing field of the collection.
C4_CollectionShape ==
    SerDone =>
        \A o \in Reachable : heap[o].k = "coll" =>
            \A var \in VarsOrNone :
                LET es == heap[o].elems
                    each == [i \in DOMAIN es |-> convert(heap, dict_factory, es[i], var, 1)]
                    r == convert(heap, dict_factory, Ref(o), var, 1) IN
                (\A i \in DOMAIN es : each[i].ok) =>
                    /\ r.ok
                    /\ r.val.k = "seq"
                    /\ Len(r.val.elems) = Len(es)
                    /\ \A i \in DOMAIN es : r.val.elems[i] = each[i].val

(***************************************************************************)
(* C5.  Enumerations.                                                      *)
(***************************************************************************)
\* C5 as stated: under every enclosing field and under none, an enumeration
\* converts as its underlying value does, and to "A" when that value is "A".
C5_EnumTransparencyEverywhere ==
    SerDone =>
        \A e \in {w \in InputValues : w.k = "enum"} :
            \A var \in VarsOrNone :
                /\ convert(heap, dict_factory, e, var, 1)
                      = convert(heap, dict_factory, e.value, var, 1)
                /\ e.value = StrA => convert(heap, dict_factory, e, var, 1) = Ok(StrA)

\* C5: under every enclosing field, whatever its format, an enumeration
\* converts as its underlying value does, and to "A" when that value is "A";
\* with no enclosing field the enumeration is not unwrapped: it is dispatched
\* as a record.
C5_EnumTransparencyUnderField ==
    SerDone =>
        \A e \in {w \in InputValues : w.k = "enum"} :
            /\ \A var \in AllVars :
                  /\ convert(heap, dict_factory, e, var, 1)
                        = convert(heap, dict_factory, e.value, var, 1)
                  /\ e.value = StrA => convert(heap, dict_factory, e, var, 1) = Ok(StrA)
            /\ e = root => result = build(class_of(heap, e))

\* an enumeration held in the field that declares a format has been converted
C5_Witness ==
    /\ pc = "converted"
    /\ root = Ref(1)
    /\ heap[1] = Rec("Point", Int1, EnumA)
    /\ result = Ok(Map(<<Pair("x", Int1), Pair("y", StrA)>>))

(***************************************************************************)
(* C6.  All or nothing.                                                    *)
(***************************************************************************)
\* the components of object o converted under var, each with the enclosing
\* field it is converted under, in the order of the conversion
Components(o, var) ==
    IF heap[o].k = "coll"
    THEN [i \in DOMAIN heap[o].elems |->
            [value |-> heap[o].elems[i],
             var |-> IF var.present /\ ~heap[o].model THEN var ELSE NoVar]]
    ELSE [i \in DOMAIN get_all_vars(heap[o].clazz) |->
            [value |-> getattr(heap, Ref(o), get_all_vars(heap[o].clazz)[i].name),
             var |-> get_all_vars(heap[o].clazz)[i]]]

\* the first component of o whose conversion fails, 0 if none fails
FirstFailing(o, var) ==
    LET cs == Components(o, var)
        failing == {i \in DOMAIN cs :
                       ~convert(heap, dict_factory, cs[i].value, cs[i].var, 1).ok} IN
    IF failing = {} THEN 0 ELSE CHOOSE i \in failing : \A j \in failing : i <= j

\* C6: when the conversion of any node fails, the error reaches the caller of
\* convert / write / render unchanged, nothing is returned, the stream given
\* to write has received nothing and dump_factory has not been invoked: the
\* conversion of every object of the graph ends in the error of its first
\* failing component, whatever converted before it.
C6_AllOrNothing ==
    SerDone =>
        /\ ~result.ok =>
              /\ raised = result.err
              /\ returned = Nothing
              /\ out = <<>>
              /\ dumps = 0
        /\ result.ok => raised = "none"
        /\ result = convert(heap, dict_factory, root, NoVar, 1)
        /\ \A o \in Reachable : \A var \in VarsOrNone :
              LET i == FirstFailing(o, var) IN
              i # 0 =>
                  convert(heap, dict_factory, Ref(o), var, 1)
                      = convert(heap, dict_factory,
                                Components(o, var)[i].value, Components(o, var)[i].var, 1)

\* write has failed on the third object of the graph, after the fields before it
C6_Witness ==
    /\ pc = "written"
    /\ root = Ref(1)
    /\ 3 \in Reachable
    /\ heap[3].k = "rec" /\ heap[3].fields.a = Unk1
    /\ heap[1].k = "rec" /\ heap[1].fields.a = Int1
    /\ raised = "UnknownTypeError"
    /\ out = <<>>

(***************************************************************************)
(* C7.  Opaque scalars.                                                    *)
(***************************************************************************)
\* C7 as stated: every opaque scalar goes to the converter registry, with the
\* enclosing field's format, or with no format when there is no enclosing field.
C7_OpaqueDelegationEverywhere ==
    SerDone =>
        \A v \in {w \in InputValues : IsOpaqueValue(w)} :
            \A var \in VarsOrNone :
                convert(heap, dict_factory, v, var, 1) = serialize(v, var.format)

\* C7: every opaque scalar reached under an enclosing field goes to the
\* converter registry with that field's format; with no enclosing field it is
\* dispatched as a record and handed to the metadata provider, so the format
\* is never looked up on an absent descriptor.
C7_OpaqueDelegationUnderField ==
    SerDone =>
        /\ \A v \in {w \in InputValues : IsOpaqueValue(w)} :
              /\ \A var \in AllVars :
                    convert(heap, dict_factory, v, var, 1) = serialize(v, var.format)
              /\ convert(heap, dict_factory, v, NoVar, 1) = build(class_of(heap, v))
              /\ v = root => result = build(class_of(heap, v))
        /\ ~result.ok => result.err # "AttributeError"

\* a registered scalar held in the field that declares format F1 has been converted
C7_Witness ==
    /\ pc = "converted"
    /\ root = Ref(1)
    /\ heap[1] = Rec("Point", Int1, Date1)
    /\ result = Ok(Map(<<Pair("x", Int1), Pair("y", [k |-> "str", v |-> "F1:d"])>>))

(***************************************************************************)
(* C8.  Independence of the output.                                        *)
(***************************************************************************)
\* C8 as stated: no map or sequence of the output is an object of the input.
C8_NoSharedObject ==
    (SerDone /\ result.ok) =>
        (BuiltIds(result.val) \cup MapIds(result.val)) \cap (InputObjIds \cup InputDictIds) = {}

\* C8: every map built from a record and every sequence built from a
\* collection is a new object, never an object of the input; the only objects
\* the output shares with the input are the generic maps (dict) found as
\* field values or elements, which are passed through as they are; and no
\* call changes the input graph.
C8_BuiltObjectsAreNew ==
    /\ [](SerDone /\ result.ok =>
            /\ BuiltIds(result.val) \subseteq {NewId}
            /\ BuiltIds(result.val) \cap (InputObjIds \cup InputDictIds) = {}
            /\ MapIds(result.val) \subseteq InputDictIds)
    /\ [][heap' = heap /\ root' = root]_vars

\* a list of records, one of them holding a generic map, has been converted
C8_Witness ==
    /\ pc = "converted"
    /\ root = Ref(1)
    /\ heap[1].k = "coll"
    /\ heap[2] = Rec("Point", Int1, Dict1)
    /\ result.ok
    /\ MapIds(result.val) = {"d1"}

(***************************************************************************)
(* C9.  Termination.                                                       *)
(***************************************************************************)
\* C9 as stated: on an acyclic graph convert ends without exhausting the
\* stack; on a cyclic graph it returns no value and ends only by resource
\* exhaustion.
C9_CyclicEndsOnlyByExhaustion ==
    SerDone =>
        /\ ~Cyclic => (result.ok \/ result.err # "ResourceExhaustion")
        /\ Cyclic => (~result.ok /\ result.err = "ResourceExhaustion")

\* C9: on an acyclic graph convert ends, with a value or an error, without
\* exhausting the stack; on a cyclic graph it returns no value: it ends with
\* an error, resource exhaustion or the error of a node met before.
C9_Termination ==
    SerDone =>
        /\ ~Cyclic => (result.ok \/ result.err \in {"MetadataError", "UnknownTypeError"})
        /\ Cyclic =>
              /\ ~result.ok
              /\ result.err \in {"ResourceExhaustion", "MetadataError", "UnknownTypeError"}

\* a cycle of two objects has exhausted the stack
C9_Witness ==
    /\ pc = "converted"
    /\ root = Ref(1)
    /\ 1 \in Succ(heap, 2) /\ 2 \in Succ(heap, 1)
    /\ result = Err("ResourceExhaustion")

(***************************************************************************)
(* C10.  generate: what the command line changes in the configuration.     *)
(***************************************************************************)
\* C10: with a configuration file, the loaded configuration is kept but for
\* the package (when --package is not "generated"), the structure style (when
\* not "filenames"), the output format (when not "dataclasses") and relative
\* imports (set when the flag is given); --compound-fields and
\* --docstring-style change nothing.  With no file, format, package, relative
\* imports, compound fields and docstring style are the options'.
C10_ConfigOverrides ==
    pc = "generated" =>
        LET file == config_file.content IN
        /\ config_file.exists =>
              /\ config.package
                    = IF kwargs.package # "generated" THEN kwargs.package ELSE file.package
              /\ config.structure
                    = IF kwargs.structure_style # "filenames"
                      THEN kwargs.structure_style ELSE file.structure
              /\ config.format.value
                    = IF kwargs.output # "dataclasses" THEN kwargs.output ELSE file.format.value
              /\ config.format.origin = file.format.origin
              /\ config.relative_imports = (kwargs.relative_imports \/ file.relative_imports)
              /\ config.compound_fields = file.compound_fields
              /\ config.docstring_style = file.docstring_style
              /\ config.rest = file.rest
        /\ ~config_file.exists =>
              /\ config.format.value = kwargs.output
              /\ config.package = kwargs.package
              /\ config.relative_imports = kwargs.relative_imports
              /\ config.compound_fields = kwargs.compound_fields
              /\ config.docstring_style = kwargs.docstring_style

\* a file's package and compound fields have survived the defaults and a flag
C10_Witness ==
    /\ pc = "generated"
    /\ config_file.exists
    /\ kwargs.package = "generated" /\ config.package = "filepkg"
    /\ kwargs.compound_fields /\ ~config.compound_fields
    /\ kwargs.docstring_style = "Google" /\ config.docstring_style = "NumPy"
    /\ kwargs.output = "plantuml" /\ config.format.value = "plantuml"

====
